---------------------------- MODULE Spec2Model ----------------------------
(***************************************************************************)
(* Model of mpas_tools.mesh.creation:                                      *)
(*   - triangle_to_netcdf (triangle_to_netcdf.py), the conversion of a     *)
(*     Triangle .node/.ele file pair into an MPAS NetCDF dataset;          *)
(*   - mergeCellWidthVsLat and AtlanticPacificGrid                         *)
(*     (mesh_definition_tools.py), two of the cell-width functions.        *)
(*                                                                         *)
(* A raw text line is the sequence of its pieces, each a string: its       *)
(* tokens, after a piece of leading white space when the line is indented. *)
(* Arrays are functions on 0..n-1, as in the code.                         *)
(***************************************************************************)
EXTENDS Integers, Sequences, FiniteSets, TLC

\* Longest node-file body (lines after the header) that is enumerated.
MaxNodeLines == 3
\* Longest element-file body that is enumerated.
MaxEleLines == 2
\* Longest lat array, and longest lon array, that is enumerated.
MaxLatLen == 2
MaxLonLen == 1

-----------------------------------------------------------------------------
(* Text and number conversion                                              *)

\* The piece that is leading white space.
Indent == " "

\* Tokens whose first character is '#'.
HashTokens == {"#", "#c"}

\* str.startswith("#") on a raw line: the first piece, white space included,
\* starts with '#'.
StartsWithHash(line) == Len(line) > 0 /\ line[1] \in HashTokens

\* str.split() on a raw line: the tokens, without the white space.
Split(line) == SelectSeq(line, LAMBDA piece : piece # Indent)

\* The literals int() accepts, with their values.
IntLiteral ==
    ("-1" :> -1) @@ ("0" :> 0) @@ ("1" :> 1) @@ ("2" :> 2) @@ ("3" :> 3) @@
    ("4" :> 4) @@ ("5" :> 5) @@ ("6" :> 6) @@ ("7" :> 7) @@ ("8" :> 8) @@
    ("9" :> 9)

\* The literals float() accepts: every int literal, and decimal notation.
FloatLiteral == IntLiteral @@ ("2.0" :> 2)

ParsesAsInt(tok) == tok \in DOMAIN IntLiteral
ParsesAsFloat(tok) == tok \in DOMAIN FloatLiteral
int(tok) == IntLiteral[tok]
float(tok) == FloatLiteral[tok]

\* Decimal notation of a small natural number (used to write header lines).
Decimal == <<"0", "1", "2", "3", "4", "5", "6", "7", "8", "9">>
str(n) == Decimal[n + 1]

\* np.zeros((n,))
Zeros(n) == [k \in 0..(n - 1) |-> 0]

\* numpy indexing of an axis of length n with offset o: offsets -n..-1 count
\* from the end, anything outside -n..n-1 raises IndexError.
InBounds(n, o) == -n <= o /\ o < n
NpOffset(n, o) == IF o < 0 THEN o + n ELSE o

-----------------------------------------------------------------------------
(* Input files                                                             *)

SeqsUpTo(S, n) == UNION {[1..k -> S] : k \in 0..n}

CommentLine == <<"#", "c">>
IndentedCommentLine == <<Indent, "#", "c">>
GluedCommentNode == <<"#c", "7", "7">>
GluedCommentEle == <<"#c", "1", "1", "1">>
BlankLine == <<>>

\* The k-th body line of a node file, by kind.  A well-formed line is
\* index x y marker; successive lines hold the points (0,0), (2,0), (0,2),
\* (2,2), ...; a "bad" line has an x field that is not a number.
NodeKinds == {"good", "bad", "comment", "indented", "glued"}
NodeLine(kind, k) ==
    CASE kind = "good" ->
           <<str(k), IF k % 2 = 0 THEN "2.0" ELSE "0",
             IF k > 2 THEN "2" ELSE "0", "1">>
      [] kind = "bad" -> <<str(k), "x", "0", "1">>
      [] kind = "comment" -> CommentLine
      [] kind = "indented" -> IndentedCommentLine
      [] kind = "glued" -> GluedCommentNode
NodeBody(kinds) == [k \in 1..Len(kinds) |-> NodeLine(kinds[k], k)]

\* Triangle's node header: <# of vertices> <dimension> <# of attributes>
\* <# of boundary markers>.
NodeHeader(body) ==
    <<str(Cardinality({k \in 1..Len(body) : ~StartsWithHash(body[k])})),
      "2", "0", "1">>

\* Element lines of a 3-node triangulation with one attribute column:
\* index n1 n2 n3 attribute.
EleLine123 == <<"1", "1", "2", "3", "0">>
EleLineZero == <<"2", "0", "1", "2", "0">>
EleLineNegative == <<"3", "-1", "1", "1", "0">>
EleLineNotInt == <<"4", "2.0", "1", "1", "0">>
EleBodyLines3 ==
    {EleLine123, EleLineZero, EleLineNegative, EleLineNotInt,
     CommentLine, IndentedCommentLine, GluedCommentEle, BlankLine}
\* A line of a 4-node element file without attributes, and of a 2-node one.
EleLine4Nodes == <<"1", "1", "2", "3", "1">>
EleLine2Nodes == <<"1", "1", "2">>

\* Triangle's element header: <# of elements> <nodes per element>
\* <# of attributes>.
EleHeader(body, degree, nattr) ==
    <<str(Cardinality({k \in 1..Len(body) : ~StartsWithHash(body[k])})),
      str(degree), str(nattr)>>

File(lines) == [exists |-> TRUE, lines |-> lines]
MissingFile == [exists |-> FALSE, lines |-> <<>>]

NodeFiles ==
    {File(<<NodeHeader(NodeBody(kinds))>> \o NodeBody(kinds)) :
        kinds \in SeqsUpTo(NodeKinds, MaxNodeLines)}
    \cup {File(<<CommentLine, NodeHeader(NodeBody(kinds))>> \o NodeBody(kinds)) :
        kinds \in SeqsUpTo({"good"}, MaxNodeLines)}
    \cup {MissingFile}

EleFiles ==
    {File(<<EleHeader(body, 3, 1)>> \o body) :
        body \in SeqsUpTo(EleBodyLines3, MaxEleLines)}
    \cup {File(<<CommentLine, EleHeader(body, 3, 1)>> \o body) :
        body \in SeqsUpTo({EleLine123}, MaxEleLines)}
    \cup {File(<<EleHeader(body, 4, 0)>> \o body) :
        body \in SeqsUpTo({EleLine4Nodes}, MaxEleLines) \ {<<>>}}
    \cup {File(<<EleHeader(body, 2, 0)>> \o body) :
        body \in SeqsUpTo({EleLine2Nodes}, MaxEleLines) \ {<<>>}}
    \cup {MissingFile}

-----------------------------------------------------------------------------
(* triangle_to_netcdf: state                                               *)

VARIABLES
    pc,                  \* the statement triangle_to_netcdf is at
    err,                 \* the exception that ended the call, or "none"
    node, ele,           \* the contents of the files named by node and ele
    outFile,             \* what is on disk at output_name
    grid,                \* the NetCDF dataset handle
    dims, atts, vars,    \* what has been defined in the dataset so far
    cell_info, cov_info, \* the text file handles
    nCells, nVertices, vertexDegree,
    xCell_full, yCell_full, zCell_full, i,
    cellsOnVertex_full, iVertex,
    xVertex_full, yVertex_full, zVertex_full

\* What triangle_to_netcdf alone reads and writes (pc, err and i are shared
\* with the cell-width functions).
tvars ==
    <<node, ele, outFile, grid, dims, atts, vars, cell_info, cov_info,
      nCells, nVertices, vertexDegree, xCell_full, yCell_full, zCell_full,
      cellsOnVertex_full, iVertex, xVertex_full, yVertex_full, zVertex_full>>

(* mergeCellWidthVsLat and AtlanticPacificGrid: state                      *)

VARIABLES
    fn,                  \* the function that was called
    lat, lon,
    cellWidthInSouth, cellWidthInNorth, latTransition, latWidthTransition,
    cellWidthInAtlantic, cellWidthInPacific,
    cellWidthOut, j

fvars ==
    <<fn, lat, lon, cellWidthInSouth, cellWidthInNorth, latTransition,
      latWidthTransition, cellWidthInAtlantic, cellWidthInPacific,
      cellWidthOut, j>>

vars_all == <<pc, err, i, tvars, fvars>>


-----------------------------------------------------------------------------
(* triangle_to_netcdf: the loops                                           *)

\* The counting loop of lines 33-36 and 43-46: every line that does not
\* start with '#' adds one.
RECURSIVE CountLoop(_, _, _)
CountLoop(lines, k, n) ==
    IF k > Len(lines) THEN n
    ELSE IF StartsWithHash(lines[k]) THEN CountLoop(lines, k + 1, n)
    ELSE CountLoop(lines, k + 1, n + 1)

\* The count as it would be were the header line not discounted.
CountLinesWithHeader(lines) == CountLoop(lines, 1, 0)

\* nCells and nVertices start at -1: "There is one header line".
CountLines(lines) == CountLoop(lines, 1, -1)

Raise(st, e) == [st EXCEPT !.err = e]

\* The loop of lines 65-72 over the lines after the first, which
\* cell_info.readline() has consumed as the header.  st holds i, the three
\* coordinate arrays and their length n; a statement that raises leaves
\* what was assigned before it.
RECURSIVE CellLoop(_, _, _)
CellLoop(lines, k, st) ==
    IF k > Len(lines) THEN st
    ELSE LET block_arr == Split(lines[k]) IN
      IF Len(block_arr) = 0 THEN Raise(st, "IndexError")
      ELSE IF block_arr[1] = "#" THEN CellLoop(lines, k + 1, st)
      ELSE IF Len(block_arr) < 2 THEN Raise(st, "IndexError")
      ELSE IF ~ParsesAsFloat(block_arr[2]) THEN Raise(st, "ValueError")
      ELSE IF ~InBounds(st.n, st.i) THEN Raise(st, "IndexError")
      ELSE LET stx == [st EXCEPT !.x[st.i] = float(block_arr[2])] IN
        IF Len(block_arr) < 3 THEN Raise(stx, "IndexError")
        ELSE IF ~ParsesAsFloat(block_arr[3]) THEN Raise(stx, "ValueError")
        ELSE CellLoop(lines, k + 1,
                      [stx EXCEPT !.y[st.i] = float(block_arr[3]),
                                  !.z[st.i] = 0,
                                  !.i = st.i + 1])

\* int(block_arr[j + 1]) of line 92, with c for the code's j: the (c+1)-th
\* column after the triangle number (block_arr is numbered from 1 here, from
\* 0 in the code).
NodeRef(block_arr, c) == int(block_arr[c + 2])

\* The inner loop of lines 91-92 over c = 0, 1, 2.
RECURSIVE RefLoop(_, _, _)
RefLoop(block_arr, c, st) ==
    IF c > 2 THEN st
    ELSE IF Len(block_arr) < c + 2 THEN Raise(st, "IndexError")
    ELSE IF ~ParsesAsInt(block_arr[c + 2]) THEN Raise(st, "ValueError")
    ELSE RefLoop(block_arr, c + 1,
                 [st EXCEPT !.cov[st.iVertex][c] = NodeRef(block_arr, c)])

\* The loop of lines 84-94 over the lines after the first.  st holds
\* iVertex, cellsOnVertex_full (cov) and its number of rows n.
RECURSIVE VertexLoop(_, _, _)
VertexLoop(lines, k, st) ==
    IF k > Len(lines) THEN st
    ELSE LET block_arr == Split(lines[k]) IN
      IF Len(block_arr) = 0 THEN Raise(st, "IndexError")
      ELSE IF block_arr[1] = "#" THEN VertexLoop(lines, k + 1, st)
      ELSE IF ~InBounds(st.n, st.iVertex) THEN Raise(st, "IndexError")
      ELSE LET row == [st EXCEPT !.cov[st.iVertex] = [c \in 0..2 |-> -1]]
               got == RefLoop(block_arr, 0, row)
           IN IF got.err # "none" THEN got
              ELSE VertexLoop(lines, k + 1,
                              [got EXCEPT !.iVertex = st.iVertex + 1])

\* The planar branch of mpas_tools.mesh.creation.util.circumcenter: the
\* point equidistant from (x1,y1), (x2,y2), (x3,y3).  Each quotient is kept
\* as <<numerator, denominator>>; a denominator of 0 (collinear points) is
\* what floating point returns as nan or inf.
circumcenter(on_sphere, x1, y1, z1, x2, y2, z2, x3, y3, z3) ==
    LET d == 2 * (x1 * (y2 - y3) + x2 * (y3 - y1) + x3 * (y1 - y2))
        s1 == x1 * x1 + y1 * y1
        s2 == x2 * x2 + y2 * y2
        s3 == x3 * x3 + y3 * y3
    IN [x |-> <<s1 * (y2 - y3) + s2 * (y3 - y1) + s3 * (y1 - y2), d>>,
        y |-> <<s1 * (x3 - x2) + s2 * (x1 - x3) + s3 * (x2 - x1), d>>,
        z |-> 0]

\* The array offset line 108-116 computes from a 1-based cell number.
CellOffset(cell) == cell - 1

\* The loop of lines 103-121 over v = 0..nVertices-1.  st holds iVertex and
\* the three vertex arrays; xc, yc, zc are the cell arrays of length n.
RECURSIVE CircumLoop(_, _, _, _, _, _, _, _)
CircumLoop(v, nV, cov, n, xc, yc, zc, st) ==
    IF v >= nV THEN st
    ELSE LET at == [st EXCEPT !.iVertex = v]
             o1 == CellOffset(cov[v][0])
             o2 == CellOffset(cov[v][1])
             o3 == CellOffset(cov[v][2])
         IN
      IF ~(InBounds(n, o1) /\ InBounds(n, o2) /\ InBounds(n, o3))
      THEN Raise(at, "IndexError")
      ELSE LET p1 == NpOffset(n, o1)
               p2 == NpOffset(n, o2)
               p3 == NpOffset(n, o3)
               pv == circumcenter(FALSE, xc[p1], yc[p1], zc[p1],
                                  xc[p2], yc[p2], zc[p2],
                                  xc[p3], yc[p3], zc[p3])
           IN CircumLoop(v + 1, nV, cov, n, xc, yc, zc,
                         [at EXCEPT !.xv[v] = pv.x, !.yv[v] = pv.y,
                                    !.zv[v] = pv.z])

-----------------------------------------------------------------------------
(* triangle_to_netcdf: the statements                                      *)

\* The cell-width functions' variables while triangle_to_netcdf runs.
FieldIdle ==
    /\ fn = "triangle_to_netcdf"
    /\ lat = <<>> /\ lon = <<>>
    /\ cellWidthInSouth = <<>> /\ cellWidthInNorth = <<>>
    /\ latTransition = 0 /\ latWidthTransition = 0
    /\ cellWidthInAtlantic = <<>> /\ cellWidthInPacific = <<>>
    /\ cellWidthOut = <<>> /\ j = 0

\* The call triangle_to_netcdf(node, ele, output_name) on any pair of input
\* files, with nothing at output_name.  Locals not yet assigned hold 0 or
\* the empty array.
Init ==
    /\ pc = "open_grid" /\ err = "none"
    /\ node \in NodeFiles /\ ele \in EleFiles
    /\ outFile = "absent"
    /\ grid = "unopened" /\ cell_info = "unopened" /\ cov_info = "unopened"
    /\ dims = <<>> /\ atts = <<>> /\ vars = <<>>
    /\ nCells = 0 /\ nVertices = 0 /\ vertexDegree = 0
    /\ xCell_full = <<>> /\ yCell_full = <<>> /\ zCell_full = <<>> /\ i = 0
    /\ cellsOnVertex_full = <<>> /\ iVertex = 0
    /\ xVertex_full = <<>> /\ yVertex_full = <<>> /\ zVertex_full = <<>>
    /\ FieldIdle

Running(at) == pc = at /\ err = "none"

\* Line 27: NetCDFFile(output_name, 'w') creates the file on disk; nothing of
\* the dataset is in it until the dataset is synced or closed.
OpenGrid ==
    /\ Running("open_grid")
    /\ grid' = "open"
    /\ outFile' = "partial"
    /\ pc' = "count_cells"
    /\ UNCHANGED <<err, i, node, ele, dims, atts, vars, cell_info, cov_info,
                   nCells, nVertices, vertexDegree, xCell_full, yCell_full,
                   zCell_full, cellsOnVertex_full, iVertex, xVertex_full,
                   yVertex_full, zVertex_full, fvars>>

\* Lines 31-37: open raises when the node file is missing; otherwise the
\* lines are counted and the file is closed.
CountCells ==
    /\ Running("count_cells")
    /\ IF node.exists
       THEN /\ nCells' = CountLines(node.lines)
            /\ cell_info' = "closed"
            /\ pc' = "count_vertices"
            /\ err' = err
       ELSE /\ err' = "FileNotFoundError"
            /\ UNCHANGED <<nCells, cell_info, pc>>
    /\ UNCHANGED <<i, node, ele, outFile, grid, dims, atts, vars, cov_info,
                   nVertices, vertexDegree, xCell_full, yCell_full,
                   zCell_full, cellsOnVertex_full, iVertex, xVertex_full,
                   yVertex_full, zVertex_full, fvars>>

\* Lines 40-47: the same for the element file; vertexDegree is set to 3.
CountVertices ==
    /\ Running("count_vertices")
    /\ IF ele.exists
       THEN /\ vertexDegree' = 3
            /\ nVertices' = CountLines(ele.lines)
            /\ cov_info' = "closed"
            /\ pc' = "create_dims"
            /\ err' = err
       ELSE /\ err' = "FileNotFoundError"
            /\ UNCHANGED <<vertexDegree, nVertices, cov_info, pc>>
    /\ UNCHANGED <<i, node, ele, outFile, grid, dims, atts, vars, cell_info,
                   nCells, xCell_full, yCell_full, zCell_full,
                   cellsOnVertex_full, iVertex, xVertex_full, yVertex_full,
                   zVertex_full, fvars>>

\* Lines 49-55.  The test of line 49 builds a ValueError without raising it,
\* so both of its branches go on to create the dimensions.  A dimension of
\* size 0 is an unlimited dimension, and a NETCDF3_CLASSIC dataset takes one
\* only: createDimension raises on the second.
CreateDimensions ==
    /\ Running("create_dims")
    /\ IF nCells = 0 /\ nVertices = 0
       THEN /\ dims' = <<<<"nCells", nCells>>>>
            /\ err' = "RuntimeError"
            /\ pc' = pc
       ELSE /\ dims' = <<<<"nCells", nCells>>, <<"nVertices", nVertices>>,
                         <<"vertexDegree", vertexDegree>>>>
            /\ pc' = "parse_cells"
            /\ err' = err
    /\ UNCHANGED <<i, node, ele, outFile, grid, atts, vars, cell_info,
                   cov_info, nCells, nVertices, vertexDegree, xCell_full,
                   yCell_full, zCell_full, cellsOnVertex_full, iVertex,
                   xVertex_full, yVertex_full, zVertex_full, fvars>>

\* Lines 58-73: the node file is opened again and parsed; cell_info.close()
\* is reached only when no line raised.
ParseCells ==
    /\ Running("parse_cells")
    /\ LET got == CellLoop(node.lines, 2,
                           [i |-> 0, x |-> Zeros(nCells), y |-> Zeros(nCells),
                            z |-> Zeros(nCells), n |-> nCells, err |-> "none"])
       IN /\ xCell_full' = got.x
          /\ yCell_full' = got.y
          /\ zCell_full' = got.z
          /\ i' = got.i
          /\ err' = got.err
          /\ cell_info' = IF got.err = "none" THEN "closed" ELSE "open"
          /\ pc' = IF got.err = "none" THEN "set_atts" ELSE pc
    /\ UNCHANGED <<node, ele, outFile, grid, dims, atts, vars, cov_info,
                   nCells, nVertices, vertexDegree, cellsOnVertex_full,
                   iVertex, xVertex_full, yVertex_full, zVertex_full, fvars>>

\* Lines 75-76.
SetAttributes ==
    /\ Running("set_atts")
    /\ atts' = <<<<"on_a_sphere", "NO">>, <<"sphere_radius", 0>>>>
    /\ pc' = "parse_vertices"
    /\ UNCHANGED <<err, i, node, ele, outFile, grid, dims, vars, cell_info,
                   cov_info, nCells, nVertices, vertexDegree, xCell_full,
                   yCell_full, zCell_full, cellsOnVertex_full, iVertex,
                   xVertex_full, yVertex_full, zVertex_full, fvars>>

\* Lines 78-96: the element file is opened again and parsed.
ParseVertices ==
    /\ Running("parse_vertices")
    /\ LET got == VertexLoop(ele.lines, 2,
                             [iVertex |-> 0,
                              cov |-> [v \in 0..(nVertices - 1) |->
                                          [c \in 0..(vertexDegree - 1) |-> 0]],
                              n |-> nVertices, err |-> "none"])
       IN /\ cellsOnVertex_full' = got.cov
          /\ iVertex' = got.iVertex
          /\ err' = got.err
          /\ cov_info' = IF got.err = "none" THEN "closed" ELSE "open"
          /\ pc' = IF got.err = "none" THEN "compute_vertices" ELSE pc
    /\ UNCHANGED <<i, node, ele, outFile, grid, dims, atts, vars, cell_info,
                   nCells, nVertices, vertexDegree, xCell_full, yCell_full,
                   zCell_full, xVertex_full, yVertex_full, zVertex_full,
                   fvars>>

\* Lines 98-121: one circumcenter per row of cellsOnVertex_full.
ComputeVertices ==
    /\ Running("compute_vertices")
    /\ LET got == CircumLoop(0, nVertices, cellsOnVertex_full, nCells,
                             xCell_full, yCell_full, zCell_full,
                             [iVertex |-> iVertex, xv |-> Zeros(nVertices),
                              yv |-> Zeros(nVertices),
                              zv |-> Zeros(nVertices), err |-> "none"])
       IN /\ xVertex_full' = got.xv
          /\ yVertex_full' = got.yv
          /\ zVertex_full' = got.zv
          /\ iVertex' = got.iVertex
          /\ err' = got.err
          /\ pc' = IF got.err = "none" THEN "write_vars" ELSE pc
    /\ UNCHANGED <<i, node, ele, outFile, grid, dims, atts, vars, cell_info,
                   cov_info, nCells, nVertices, vertexDegree, xCell_full,
                   yCell_full, zCell_full, cellsOnVertex_full, fvars>>

\* Lines 123-142: the variables are created and assigned, in this order.
WriteVariables ==
    /\ Running("write_vars")
    /\ vars' = <<<<"meshDensity", [k \in 0..(nCells - 1) |-> 1]>>,
                 <<"xCell", xCell_full>>, <<"yCell", yCell_full>>,
                 <<"zCell", zCell_full>>, <<"xVertex", xVertex_full>>,
                 <<"yVertex", yVertex_full>>, <<"zVertex", zVertex_full>>,
                 <<"cellsOnVertex", cellsOnVertex_full>>>>
    /\ pc' = "sync_close"
    /\ UNCHANGED <<err, i, node, ele, outFile, grid, dims, atts, cell_info,
                   cov_info, nCells, nVertices, vertexDegree, xCell_full,
                   yCell_full, zCell_full, cellsOnVertex_full, iVertex,
                   xVertex_full, yVertex_full, zVertex_full, fvars>>

\* Lines 144-145: the dataset reaches the disk and the handle is closed.
SyncAndClose ==
    /\ Running("sync_close")
    /\ outFile' = "complete"
    /\ grid' = "closed"
    /\ pc' = "done"
    /\ UNCHANGED <<err, i, node, ele, dims, atts, vars, cell_info, cov_info,
                   nCells, nVertices, vertexDegree, xCell_full, yCell_full,
                   zCell_full, cellsOnVertex_full, iVertex, xVertex_full,
                   yVertex_full, zVertex_full, fvars>>

Next ==
    \/ OpenGrid
    \/ CountCells
    \/ CountVertices
    \/ CreateDimensions
    \/ ParseCells
    \/ SetAttributes
    \/ ParseVertices
    \/ ComputeVertices
    \/ WriteVariables
    \/ SyncAndClose

Spec == Init /\ [][Next]_vars_all

-----------------------------------------------------------------------------
(* mergeCellWidthVsLat and AtlanticPacificGrid                             *)

\* ndarray.size of a one-dimensional array.
Size(a) == Cardinality(DOMAIN a)

ArraysUpTo(S, n) == UNION {[0..(k - 1) -> S] : k \in 0..n}

\* Latitudes and longitudes on, and on either side of, the thresholds of
\* AtlanticPacificGrid.
LatValues == {-10, 0, 10, 20, 65, 66}
LonValues ==
    {-150, -120, -100, -90, -80, -70, -60, 0, 20, 30, 35, 100, 170, 180}

\* A per-latitude array of length n: base, base+1, ...
Profile(base, n) == [k \in 0..(n - 1) |-> base + k]

\* The lengths of two per-latitude arrays for a lat of length n: both n, or
\* one of them one longer or one shorter.
LengthPairs(n) ==
    {p \in {<<n, n>>, <<n - 1, n>>, <<n + 1, n>>, <<n, n - 1>>, <<n, n + 1>>} :
        p[1] >= 0 /\ p[2] >= 0}

\* triangle_to_netcdf's variables while a cell-width function runs.
TriangleIdle ==
    /\ node = MissingFile /\ ele = MissingFile
    /\ outFile = "absent"
    /\ grid = "unopened" /\ cell_info = "unopened" /\ cov_info = "unopened"
    /\ dims = <<>> /\ atts = <<>> /\ vars = <<>>
    /\ nCells = 0 /\ nVertices = 0 /\ vertexDegree = 0
    /\ xCell_full = <<>> /\ yCell_full = <<>> /\ zCell_full = <<>>
    /\ cellsOnVertex_full = <<>> /\ iVertex = 0
    /\ xVertex_full = <<>> /\ yVertex_full = <<>> /\ zVertex_full = <<>>

\* np.ones(lat.size), line 47.
Ones(n) == [k \in 0..(n - 1) |-> 1]

\* A call of mergeCellWidthVsLat, after line 47.
MergeInit ==
    /\ fn = "mergeCellWidthVsLat"
    /\ pc = "merge_loop" /\ err = "none"
    /\ lat \in ArraysUpTo(LatValues, MaxLatLen)
    /\ \E p \in LengthPairs(Size(lat)) :
          /\ cellWidthInSouth = Profile(100, p[1])
          /\ cellWidthInNorth = Profile(200, p[2])
    /\ latTransition \in {0, 20}
    /\ latWidthTransition \in {0, 5}
    /\ cellWidthOut = Ones(Size(lat))
    /\ j = 0
    /\ lon = <<>> /\ cellWidthInAtlantic = <<>> /\ cellWidthInPacific = <<>>
    /\ i = 0
    /\ TriangleIdle

\* The test as it would be were the transition latitude itself southern.
TakesSouthInclusive(latj, transition) == latj <= transition

\* The test of line 50: the sample takes the southern width.
TakesSouth(latj, transition) == latj < transition

\* Lines 56-60: the weights are 0.5 * (tanh(d / w) + 1) and its complement,
\* kept as the term they are computed from.
TanhBlend(d, w, south, north) ==
    [tanh |-> <<d, w>>, south |-> south, north |-> north]

\* One iteration of the loop of line 49 or of line 55.  Indexing an array
\* beyond its end raises IndexError.
MergeStep ==
    /\ fn = "mergeCellWidthVsLat"
    /\ Running("merge_loop")
    /\ j < Size(lat)
    /\ LET needsSouth ==
               latWidthTransition # 0 \/ TakesSouth(lat[j], latTransition)
           needsNorth ==
               latWidthTransition # 0 \/ ~TakesSouth(lat[j], latTransition)
       IN IF \/ needsSouth /\ j \notin DOMAIN cellWidthInSouth
             \/ needsNorth /\ j \notin DOMAIN cellWidthInNorth
          THEN /\ err' = "IndexError"
               /\ UNCHANGED <<cellWidthOut, j>>
          ELSE /\ cellWidthOut' =
                    [cellWidthOut EXCEPT ![j] =
                        IF latWidthTransition = 0
                        THEN IF TakesSouth(lat[j], latTransition)
                             THEN cellWidthInSouth[j]
                             ELSE cellWidthInNorth[j]
                        ELSE TanhBlend(lat[j] - latTransition,
                                       latWidthTransition,
                                       cellWidthInSouth[j],
                                       cellWidthInNorth[j])]
               /\ j' = j + 1
               /\ err' = err
    /\ UNCHANGED <<pc, i, tvars, fn, lat, lon, cellWidthInSouth,
                   cellWidthInNorth, latTransition, latWidthTransition,
                   cellWidthInAtlantic, cellWidthInPacific>>

\* Line 62, once the loop has run over range(lat.size).
MergeReturn ==
    /\ fn = "mergeCellWidthVsLat"
    /\ Running("merge_loop")
    /\ j >= Size(lat)
    /\ pc' = "returned"
    /\ UNCHANGED <<err, i, tvars, fvars>>

\* A call of AtlanticPacificGrid, after line 194.
GridInit ==
    /\ fn = "AtlanticPacificGrid"
    /\ pc = "grid_loop" /\ err = "none"
    /\ lat \in ArraysUpTo(LatValues, MaxLatLen)
    /\ lon \in ArraysUpTo(LonValues, MaxLonLen)
    /\ \E p \in LengthPairs(Size(lat)) :
          /\ cellWidthInAtlantic = Profile(100, p[1])
          /\ cellWidthInPacific = Profile(200, p[2])
    /\ cellWidthOut = [r \in DOMAIN lat |-> [c \in DOMAIN lon |-> 0]]
    /\ i = 0 /\ j = 0
    /\ cellWidthInSouth = <<>> /\ cellWidthInNorth = <<>>
    /\ latTransition = 0 /\ latWidthTransition = 0
    /\ TriangleIdle

\* The tests as they would be were the equator put in the tropical band.
InAtlanticEquatorTropical(latj, loni) ==
    IF latj > 65 THEN loni > -150 /\ loni < 170
    ELSE IF latj > 20 THEN loni > -100 /\ loni < 35
    ELSE IF latj >= 0 THEN loni > -2 * latj - 60 /\ loni < 35
    ELSE loni > -60 /\ loni < 20

\* The tests of lines 200-211: the sample lies in the Atlantic basin.
InAtlantic(latj, loni) ==
    IF latj > 65 THEN loni > -150 /\ loni < 170
    ELSE IF latj > 20 THEN loni > -100 /\ loni < 35
    ELSE IF latj > 0 THEN loni > -2 * latj - 60 /\ loni < 35
    ELSE loni > -60 /\ loni < 20

\* One iteration of the inner loop, lines 197-211, and the move to the next
\* (i, j) of the two loops.
GridStep ==
    /\ fn = "AtlanticPacificGrid"
    /\ Running("grid_loop")
    /\ i < Size(lon) /\ j < Size(lat)
    /\ IF j \notin DOMAIN cellWidthInPacific
       THEN /\ err' = "IndexError"
            /\ UNCHANGED <<cellWidthOut, i, j>>
       ELSE LET pacific ==
                    [cellWidthOut EXCEPT ![j][i] = cellWidthInPacific[j]]
            IN IF ~InAtlantic(lat[j], lon[i])
               THEN /\ cellWidthOut' = pacific
                    /\ err' = err
                    /\ j' = IF j + 1 < Size(lat) THEN j + 1 ELSE 0
                    /\ i' = IF j + 1 < Size(lat) THEN i ELSE i + 1
               ELSE IF j \notin DOMAIN cellWidthInAtlantic
               THEN /\ cellWidthOut' = pacific
                    /\ err' = "IndexError"
                    /\ UNCHANGED <<i, j>>
               ELSE /\ cellWidthOut' =
                         [pacific EXCEPT ![j][i] = cellWidthInAtlantic[j]]
                    /\ err' = err
                    /\ j' = IF j + 1 < Size(lat) THEN j + 1 ELSE 0
                    /\ i' = IF j + 1 < Size(lat) THEN i ELSE i + 1
    /\ UNCHANGED <<pc, tvars, fn, lat, lon, cellWidthInSouth,
                   cellWidthInNorth, latTransition, latWidthTransition,
                   cellWidthInAtlantic, cellWidthInPacific>>

\* Line 212, once both loops have run (at once when lat is empty).
GridReturn ==
    /\ fn = "AtlanticPacificGrid"
    /\ Running("grid_loop")
    /\ i >= Size(lon) \/ Size(lat) = 0
    /\ pc' = "returned"
    /\ UNCHANGED <<err, i, tvars, fvars>>

FieldInit == MergeInit \/ GridInit

FieldNext ==
    \/ MergeStep
    \/ MergeReturn
    \/ GridStep
    \/ GridReturn

SpecField == FieldInit /\ [][FieldNext]_vars_all

-----------------------------------------------------------------------------
(* What the properties are stated in: the files as the format defines      *)
(* them, and the dataset as it is read back.                               *)

\* The lines that are not comments (a comment has a leading '#'); the first
\* of them is the header, the others are the data lines.
NonCommentLines(lines) == SelectSeq(lines, LAMBDA l : ~StartsWithHash(l))
DataLines(lines) == Tail(NonCommentLines(lines))

\* The nodes per element that the header of an element file declares.
DeclaredDegree(lines) == IntLiteral[Split(NonCommentLines(lines)[1])[2]]

Defined(seq, name) == \E k \in 1..Len(seq) : seq[k][1] = name
Lookup(seq, name) == seq[CHOOSE k \in 1..Len(seq) : seq[k][1] = name][2]

Ended == pc = "done" \/ pc = "returned" \/ err # "none"
Failed == err # "none"

\* The rows of cellsOnVertex_full whose circumcenter has been computed.
ComputedVertices ==
    IF pc = "compute_vertices" /\ Failed THEN 0..(iVertex - 1)
    ELSE IF pc \in {"write_vars", "sync_close", "done"}
    THEN DOMAIN cellsOnVertex_full
    ELSE {}

\* C1: when the call has ended, either the whole dataset is on disk or no
\* file is left at output_name; after a failure no partial file is there.
C1_NoPartialOutput ==
    /\ Ended => outFile \in {"complete", "absent"}
    /\ Failed => outFile = "absent"

\* C2: every node reference whose coordinates went into a circumcenter lies
\* in 1..nCells, and a run whose element file holds a reference outside
\* 1..nCells does not succeed.
C2_NodeRefsChecked ==
    /\ \A v \in ComputedVertices : \A c \in 0..2 :
          cellsOnVertex_full[v][c] \in 1..nCells
    /\ pc = "done" =>
          \A v \in DOMAIN cellsOnVertex_full : \A c \in 0..2 :
             cellsOnVertex_full[v][c] \in 1..nCells

\* C3: an element file that declares a number of nodes per element other
\* than 3 never gets as far as a dataset.
C3_NonTriangularRejected ==
    (fn = "triangle_to_netcdf" /\ ele.exists
        /\ DeclaredDegree(ele.lines) # 3)
    => (pc \notin {"write_vars", "sync_close", "done"}
        /\ outFile # "complete")

\* C4: after a successful run the dimension nCells is the number of data
\* lines of the node file, nVertices that of the element file, and
\* vertexDegree is 3.
C4_DimensionsMatchCounts ==
    pc = "done" =>
       /\ Defined(dims, "nCells") /\ Defined(dims, "nVertices")
       /\ Defined(dims, "vertexDegree")
       /\ Lookup(dims, "nCells") = Len(DataLines(node.lines))
       /\ Lookup(dims, "nVertices") = Len(DataLines(ele.lines))
       /\ Lookup(dims, "vertexDegree") = 3

\* A successful run on three nodes and one triangle, with a comment line in
\* the element file.
C4_Witness ==
    /\ pc = "done"
    /\ Len(DataLines(node.lines)) = 3
    /\ Len(DataLines(ele.lines)) = 1
    /\ \E k \in 1..Len(ele.lines) : StartsWithHash(ele.lines[k])

\* C5: after a successful run, row t of the variable cellsOnVertex holds the
\* three node references of the t-th data line of the element file, as
\* written: columns 2 to 4, not decremented.
C5_IndexBasePreserved ==
    pc = "done" =>
       /\ Defined(vars, "cellsOnVertex")
       /\ LET cov == Lookup(vars, "cellsOnVertex")
              data == DataLines(ele.lines)
          IN /\ DOMAIN cov = 0..(Len(data) - 1)
             /\ \A t \in DOMAIN cov :
                   /\ DOMAIN cov[t] = 0..2
                   /\ Len(Split(data[t + 1])) >= 4
                   /\ \A c \in 0..2 :
                         /\ ParsesAsInt(Split(data[t + 1])[c + 2])
                         /\ cov[t][c] = IntLiteral[Split(data[t + 1])[c + 2]]

\* The first n data lines of a file are what positions 0..n-1 of the arrays
\* hold.
CellsHoldDataLines(n) ==
    LET data == DataLines(node.lines)
    IN /\ n <= Len(data)
       /\ \A k \in 0..(n - 1) :
             /\ Len(Split(data[k + 1])) >= 3
             /\ ParsesAsFloat(Split(data[k + 1])[2])
             /\ ParsesAsFloat(Split(data[k + 1])[3])
             /\ xCell_full[k] = FloatLiteral[Split(data[k + 1])[2]]
             /\ yCell_full[k] = FloatLiteral[Split(data[k + 1])[3]]

RowsHoldDataLines(n) ==
    LET data == DataLines(ele.lines)
    IN /\ n <= Len(data)
       /\ \A k \in 0..(n - 1) : \A c \in 0..2 :
             /\ Len(Split(data[k + 1])) >= 4
             /\ ParsesAsInt(Split(data[k + 1])[c + 2])
             /\ cellsOnVertex_full[k][c] =
                   IntLiteral[Split(data[k + 1])[c + 2]]

\* C6: comments do not move anything: whatever the parsing pass of a file
\* has filled so far, position k holds the k-th data line, and a parsing pass
\* that has read the whole file has filled nCells (nVertices) positions.
C6_CommentsSkipped ==
    /\ pc = "parse_cells" /\ Failed => CellsHoldDataLines(i)
    /\ pc = "set_atts" => CellsHoldDataLines(i) /\ i = nCells
    /\ pc = "parse_vertices" /\ Failed => RowsHoldDataLines(iVertex)
    /\ pc = "compute_vertices" /\ ~Failed =>
          RowsHoldDataLines(iVertex) /\ iVertex = nVertices

\* C7: with latWidthTransition = 0 and arrays as long as lat, the result is
\* as long as lat and holds, sample by sample, the southern width where
\* lat < latTransition and the northern width elsewhere.
C7_HardCutover ==
    (/\ fn = "mergeCellWidthVsLat" /\ pc = "returned"
     /\ latWidthTransition = 0
     /\ Size(cellWidthInSouth) = Size(lat)
     /\ Size(cellWidthInNorth) = Size(lat))
    => /\ DOMAIN cellWidthOut = DOMAIN lat
       /\ \A k \in DOMAIN lat :
             /\ lat[k] < latTransition => cellWidthOut[k] = cellWidthInSouth[k]
             /\ lat[k] >= latTransition => cellWidthOut[k] = cellWidthInNorth[k]

\* A hard cutover over two samples, the first at the transition latitude,
\* the second south of it.
C7_Witness ==
    /\ fn = "mergeCellWidthVsLat" /\ pc = "returned"
    /\ latWidthTransition = 0
    /\ Size(cellWidthInSouth) = 2 /\ Size(cellWidthInNorth) = 2
    /\ Size(lat) = 2
    /\ lat[0] = latTransition /\ lat[1] < latTransition
    /\ cellWidthOut[0] = cellWidthInNorth[0]
    /\ cellWidthOut[1] = cellWidthInSouth[1]

\* The latitude bands and their longitude intervals (open at both ends).
Bands == {"polar", "subtropical", "tropical", "southern"}
InBand(b, l) ==
    CASE b = "polar" -> l > 65
      [] b = "subtropical" -> 20 < l /\ l <= 65
      [] b = "tropical" -> 0 < l /\ l <= 20
      [] b = "southern" -> l <= 0
BandWest(b, l) ==
    CASE b = "polar" -> -150
      [] b = "subtropical" -> -100
      [] b = "tropical" -> -2 * l - 60
      [] b = "southern" -> -60
BandEast(b) ==
    CASE b = "polar" -> 170
      [] b = "subtropical" -> 35
      [] b = "tropical" -> 35
      [] b = "southern" -> 20

\* C8: every latitude is in one band, and the entry of a returned grid for
\* (lat[r], lon[c]) is the Atlantic width of row r when lon[c] is strictly
\* inside the interval of that band, the Pacific width of row r otherwise.
C8_BasinMask ==
    (fn = "AtlanticPacificGrid" /\ pc = "returned")
    => \A r \in DOMAIN lat :
          /\ Cardinality({b \in Bands : InBand(b, lat[r])}) = 1
          /\ \A c \in DOMAIN lon :
                LET b == CHOOSE b \in Bands : InBand(b, lat[r])
                IN IF BandWest(b, lat[r]) < lon[c] /\ lon[c] < BandEast(b)
                   THEN cellWidthOut[r][c] = cellWidthInAtlantic[r]
                   ELSE cellWidthOut[r][c] = cellWidthInPacific[r]

\* A returned grid of two latitudes, the equator and 10 degrees north, at
\* longitude 30: east of the southern interval, inside the tropical one.
C8_Witness ==
    /\ fn = "AtlanticPacificGrid" /\ pc = "returned"
    /\ Size(lat) = 2 /\ Size(lon) = 1
    /\ lat[0] = 0 /\ lat[1] = 10 /\ lon[0] = 30
    /\ cellWidthOut[0][0] = cellWidthInPacific[0]
    /\ cellWidthOut[1][0] = cellWidthInAtlantic[1]

\* C9: a call whose per-latitude arrays are not as long as lat does not
\* return a result.
C9_LengthMismatchFails ==
    pc = "returned" =>
       /\ fn = "mergeCellWidthVsLat" =>
             /\ Size(cellWidthInSouth) = Size(lat)
             /\ Size(cellWidthInNorth) = Size(lat)
       /\ fn = "AtlanticPacificGrid" =>
             /\ Size(cellWidthInAtlantic) = Size(lat)
             /\ Size(cellWidthInPacific) = Size(lat)

\* C10: once the call has ended, by return or by exception, no file handle
\* is open.
C10_HandlesClosed ==
    (fn = "triangle_to_netcdf" /\ Ended)
    => grid # "open" /\ cell_info # "open" /\ cov_info # "open"

=============================================================================
